---- MODULE Spec2Model ----
(***************************************************************************)
(* Model of fetch_btc_data.py: one scheduled run of main() loads the prior *)
(* price series, optionally backfills it, fetches today's price, merges,   *)
(* and writes the dated CSV, latest.csv and index.html.  The file system   *)
(* persists from one run to the next.                                      *)
(***************************************************************************)
EXTENDS Integers, Sequences, FiniteSets

\* -------------------------------------------------------------- values
\* Calendar days: the day of the runs, the day before and the day after.
Dates == 1..3

\* Two distinct prices, so that a row can be told from its replacement.
Prices == 1..2

\* A series served by the website or by the Pro API has at most MaxLen
\* rows (LongSeries below is the one exception).
MaxLen == 2

\* A row of a DataFrame with the columns date and price.
Row == [date : Dates, price : Prices]

mkRow(d, p) == [date |-> d, price |-> p]

\* pd.DataFrame(columns=['date', 'price'])
EmptyFrame == <<>>

RECURSIVE SeqsUpTo(_, _)
SeqsUpTo(S, n) ==
    IF n = 0 THEN {<<>>}
    ELSE LET shorter == SeqsUpTo(S, n - 1)
         IN  shorter \cup {Append(s, x) : s \in {t \in shorter : Len(t) = n - 1}, x \in S}

\* pandas sorts one object column with numpy's default kind, an introsort
\* that partitions only a range of more than SMALL_QUICKSORT + 1 elements.
SMALL_QUICKSORT == 16

\* A series long enough for the sort to partition once today's row is
\* appended: SMALL_QUICKSORT + 1 rows of date 1, the first half at price 1.
LongSeries ==
    [i \in 1..(SMALL_QUICKSORT + 1) |->
        mkRow(1, IF 2 * i <= SMALL_QUICKSORT THEN 1 ELSE 2)]

\* What a source outside the program (website copy, Pro API) may hold.
ShortSeries == SeqsUpTo(Row, MaxLen)

ServedSeries == ShortSeries \cup {LongSeries}

\* ------------------------------------------------------- series helpers
DatesOf(df) == {df[i].date : i \in 1..Len(df)}

\* Mutant of DropDate: the comparison keeps only the later days.
DropDate_OnlyLater(df, today) == SelectSeq(df, LAMBDA r : r.date > today)

\* df[df['date'] != today]
DropDate(df, today) == SelectSeq(df, LAMBDA r : r.date # today)

Swap(t, i, j) == [t EXCEPT ![i] = t[j], ![j] = t[i]]

\* ------------------------------------------ DataFrame.sort_values('date')
\* t is the argsort permutation; keys is the date column.
RECURSIVE ScanUp(_, _, _, _)
ScanUp(keys, t, vp, i) ==
    IF keys[t[i]] < vp THEN ScanUp(keys, t, vp, i + 1) ELSE i

RECURSIVE ScanDown(_, _, _, _)
ScanDown(keys, t, vp, j) ==
    IF vp < keys[t[j]] THEN ScanDown(keys, t, vp, j - 1) ELSE j

RECURSIVE PartitionLoop(_, _, _, _, _)
PartitionLoop(keys, t, vp, i, j) ==
    LET pi == ScanUp(keys, t, vp, i + 1)
        pj == ScanDown(keys, t, vp, j - 1)
    IN  IF pi >= pj THEN <<t, pi>>
        ELSE PartitionLoop(keys, Swap(t, pi, pj), vp, pi, pj)

\* Median of three, pivot parked at pr - 1, Hoare scan, pivot to its place.
Partition(keys, t, pl, pr) ==
    LET pm == pl + ((pr - pl) \div 2)
        t1 == IF keys[t[pm]] < keys[t[pl]] THEN Swap(t, pm, pl) ELSE t
        t2 == IF keys[t1[pr]] < keys[t1[pm]] THEN Swap(t1, pr, pm) ELSE t1
        t3 == IF keys[t2[pm]] < keys[t2[pl]] THEN Swap(t2, pm, pl) ELSE t2
        vp == keys[t3[pm]]
        t4 == Swap(t3, pm, pr - 1)
        res == PartitionLoop(keys, t4, vp, pl, pr - 1)
    IN  <<Swap(res[1], res[2], pr - 1), res[2]>>

\* Sink element at position j of t towards pl while its key is smaller.
RECURSIVE Sink(_, _, _, _)
Sink(keys, t, pl, j) ==
    IF j > pl /\ keys[t[j]] < keys[t[j - 1]]
    THEN Sink(keys, Swap(t, j, j - 1), pl, j - 1)
    ELSE t

RECURSIVE InsertionSort(_, _, _, _, _)
InsertionSort(keys, t, pl, pr, i) ==
    IF i > pr THEN t
    ELSE InsertionSort(keys, Sink(keys, t, pl, i), pl, pr, i + 1)

RECURSIVE QuickSort(_, _, _, _, _)
QuickSort(keys, t, pl, pr, stack) ==
    IF pr - pl > SMALL_QUICKSORT
    THEN LET res == Partition(keys, t, pl, pr)
             pi  == res[2]
         IN  IF pi - pl < pr - pi
             THEN QuickSort(keys, res[1], pl, pi - 1, Append(stack, <<pi + 1, pr>>))
             ELSE QuickSort(keys, res[1], pi + 1, pr, Append(stack, <<pl, pi - 1>>))
    ELSE LET sorted == InsertionSort(keys, t, pl, pr, pl + 1)
         IN  IF stack = <<>> THEN sorted
             ELSE LET top == stack[Len(stack)]
                  IN  QuickSort(keys, sorted, top[1], top[2],
                                SubSeq(stack, 1, Len(stack) - 1))

argsort(keys) ==
    IF Len(keys) = 0 THEN <<>>
    ELSE QuickSort(keys, [i \in 1..Len(keys) |-> i], 1, Len(keys), <<>>)

sort_values(df) ==
    LET idx == argsort([i \in 1..Len(df) |-> df[i].date])
    IN  [i \in 1..Len(df) |-> df[idx[i]]]

\* ---------------------------------------------------------- merge step
\* main(), lines 174-184: drop today's rows, append today's row, sort.
\* Mutant of Kept: today's old rows are not removed.
Kept_NoDrop(existing, today_df) == existing

\* Lines 175-178: the rows of existing that survive the check for today.
Kept(existing, today_df) ==
    LET today == today_df[1].date
    IN  IF today \in DatesOf(existing)
        THEN DropDate(existing, today) ELSE existing

\* Lines 181-184: pd.concat, then sort_values('date').
Merge(existing, today_df) == sort_values(Kept(existing, today_df) \o today_df)

\* ------------------------------------------------------------ CSV files
\* A file is absent (<<>>) or present with one content (<<c>>).
Absent == <<>>

Present(c) == <<c>>

\* DataFrame.to_csv(path, index=False): a header line, then one line of
\* two fields per row, in row order.
to_csv(df) ==
    [header |-> <<"date", "price">>,
     lines  |-> [i \in 1..Len(df) |-> <<df[i].date, df[i].price>>]]

\* pd.read_csv(path) followed by pd.to_datetime(df['date']).dt.date
read_csv(file) ==
    [i \in 1..Len(file.lines) |-> mkRow(file.lines[i][1], file.lines[i][2])]

\* --------------------------------------------------------------- state
VARIABLES
    pc,           \* position of the run inside main()
    clock,        \* the local calendar day datetime.now() reports; the runs of
                  \* one behaviour are the runs of one day
    df_existing,  \* main(): df_existing
    df_today,     \* main(): df_today
    df,           \* main(): df, the merged series
    filename,     \* main(): filename returned by save_csv (day of the name)
    latest,       \* data/latest.csv
    dated,        \* data/btc_spot_<day>.csv, per day
    index,        \* index.html, holding the day of the file it links
    webRead,      \* outcome of the website read in this run
    web,          \* the series the website served in this run, if any
    localRead,    \* outcome of the local read in this run
    loaded,       \* what load_existing_data() returned in this run, if it has
    bulkRes,      \* outcome of fetch_btc_history_coingecko_pro in this run
    bulk,         \* the series the Pro API returned in this run, if any
    curRes,       \* outcome of fetch_current_btc_price in this run
    calls,        \* how often each source was attempted in this run
    writes,       \* the files written in this run, in order
    exitCode,     \* <<>> while running, else the process exit status
    report        \* the last outcome line the run printed

vars == <<pc, clock, df_existing, df_today, df, filename, latest, dated, index,
          webRead, web, localRead, loaded, bulkRes, bulk, curRes, calls,
          writes, exitCode, report>>

files == <<latest, dated, index>>

locals == <<df_existing, df_today, df, filename>>


\* The network sources a run may call.
Sources == {"remote", "bulk", "current"}

Terminal == {"done", "exited", "crashed"}

\* Failures of an HTTP call that requests raises as RequestException: the
\* call itself, raise_for_status(), and json() on a body that is not JSON.
RequestFailures == {"transport", "http_status", "bad_json"}

Init ==
    /\ pc = "start"
    /\ clock = 2
    /\ df_existing = EmptyFrame
    /\ df_today = EmptyFrame
    /\ df = EmptyFrame
    /\ filename = Absent
    /\ latest = Absent
    /\ dated = [d \in Dates |-> Absent]
    /\ index = Absent
    /\ webRead = "unread"
    /\ web = Absent
    /\ localRead = "unread"
    /\ loaded = Absent
    /\ bulkRes = "uncalled"
    /\ bulk = Absent
    /\ curRes = "uncalled"
    /\ calls = [s \in Sources |-> 0]
    /\ writes = <<>>
    /\ exitCode = <<>>
    /\ report = "none"

\* An exception nobody catches leaves main(): traceback, exit status 1.
Crash ==
    /\ pc' = "crashed"
    /\ exitCode' = <<1>>
    /\ report' = "traceback"

\* ------------------------------------------------- load_existing_data()
\* Lines 16-23: the website copy is read and parsed, or the read raises.
LoadRemoteOk(s) ==
    /\ pc = "start"
    /\ webRead' = "ok"
    /\ web' = Present(s)
    /\ df_existing' = s
    /\ loaded' = Present(s)
    /\ calls' = [calls EXCEPT !["remote"] = @ + 1]
    /\ pc' = "loaded"
    /\ UNCHANGED <<clock, df_today, df, filename, files, localRead, bulkRes,
                   bulk, curRes, writes, exitCode, report>>

LoadRemoteFail ==
    /\ pc = "start"
    /\ webRead' = "fail"
    /\ calls' = [calls EXCEPT !["remote"] = @ + 1]
    /\ pc' = "load_local"
    /\ UNCHANGED <<clock, locals, files, web, localRead, loaded, bulkRes, bulk,
                   curRes, writes, exitCode, report>>

\* Lines 25-38: the local copy if it exists and reads, else the empty frame.
LoadLocalOk ==
    /\ pc = "load_local"
    /\ latest # Absent
    /\ localRead' = "ok"
    /\ df_existing' = read_csv(latest[1])
    /\ loaded' = Present(read_csv(latest[1]))
    /\ pc' = "loaded"
    /\ UNCHANGED <<clock, df_today, df, filename, files, webRead, web,
                   bulkRes, bulk, curRes, calls, writes, exitCode, report>>

\* Mutant of LoadLocalFail: the local read is not guarded and its
\* exception leaves load_existing_data().
LoadLocalFail_Raise ==
    /\ pc = "load_local"
    /\ latest # Absent
    /\ localRead' = "fail"
    /\ Crash
    /\ UNCHANGED <<clock, locals, files, webRead, web, loaded, bulkRes, bulk,
                   curRes, calls, writes>>

LoadLocalFail ==
    /\ pc = "load_local"
    /\ latest # Absent
    /\ localRead' = "fail"
    /\ df_existing' = EmptyFrame
    /\ loaded' = Present(EmptyFrame)
    /\ pc' = "loaded"
    /\ UNCHANGED <<clock, df_today, df, filename, files, webRead, web,
                   bulkRes, bulk, curRes, calls, writes, exitCode, report>>

LoadLocalAbsent ==
    /\ pc = "load_local"
    /\ latest = Absent
    /\ localRead' = "absent"
    /\ df_existing' = EmptyFrame
    /\ loaded' = Present(EmptyFrame)
    /\ pc' = "loaded"
    /\ UNCHANGED <<clock, df_today, df, filename, files, webRead, web,
                   bulkRes, bulk, curRes, calls, writes, exitCode, report>>

\* Mutant of SkipBackfill: a loaded series sends the run back to the Loader.
SkipBackfill_Reload ==
    /\ pc = "loaded"
    /\ df_existing # EmptyFrame
    /\ pc' = "start"
    /\ UNCHANGED <<clock, locals, files, webRead, web, localRead, loaded,
                   bulkRes, bulk, curRes, calls, writes, exitCode, report>>

\* ------------------------------------------------ main(), lines 158-168
\* df_existing is not empty: the backfill is skipped.
SkipBackfill ==
    /\ pc = "loaded"
    /\ df_existing # EmptyFrame
    /\ pc' = "fetch_today"
    /\ UNCHANGED <<clock, locals, files, webRead, web, localRead, loaded, bulkRes,
                   bulk, curRes, calls, writes, exitCode, report>>

\* Mutant of BackfillOk: the backfill does not ask whether df_existing is
\* empty.
BackfillOk_Always(s) ==
    /\ pc = "loaded"
    /\ bulkRes' = "ok"
    /\ bulk' = Present(s)
    /\ df_existing' = s
    /\ calls' = [calls EXCEPT !["bulk"] = @ + 1]
    /\ pc' = "fetch_today"
    /\ UNCHANGED <<clock, df_today, df, filename, files, webRead, web,
                   localRead, loaded, curRes, writes, exitCode, report>>

\* fetch_btc_history_coingecko_pro() returns a frame (lines 86-104).
BackfillOk(s) ==
    /\ pc = "loaded"
    /\ df_existing = EmptyFrame
    /\ bulkRes' = "ok"
    /\ bulk' = Present(s)
    /\ df_existing' = s
    /\ calls' = [calls EXCEPT !["bulk"] = @ + 1]
    /\ pc' = "fetch_today"
    /\ UNCHANGED <<clock, df_today, df, filename, files, webRead, web,
                   localRead, loaded, curRes, writes, exitCode, report>>

\* It returns None: no key (lines 68-70), or requests raised a
\* RequestException (lines 106-108).
BackfillNone(why) ==
    /\ pc = "loaded"
    /\ df_existing = EmptyFrame
    /\ bulkRes' = why
    /\ calls' = [calls EXCEPT !["bulk"] = @ + 1]
    /\ pc' = "fetch_today"
    /\ UNCHANGED <<clock, locals, files, webRead, web, localRead, loaded, bulk,
                   curRes, writes, exitCode, report>>

\* It raises something else: data['prices'] or the DataFrame constructor
\* on JSON of another shape (lines 93-94), which line 106 does not catch.
BackfillRaise(why) ==
    /\ pc = "loaded"
    /\ df_existing = EmptyFrame
    /\ bulkRes' = why
    /\ calls' = [calls EXCEPT !["bulk"] = @ + 1]
    /\ Crash
    /\ UNCHANGED <<clock, locals, files, webRead, web, localRead, loaded, bulk,
                   curRes, writes>>

\* ---------------------------------------------- fetch_current_btc_price()
\* Lines 50-58: one row dated today at the returned price.
FetchCurrentOk(p) ==
    /\ pc = "fetch_today"
    /\ curRes' = "ok"
    /\ df_today' = <<mkRow(clock, p)>>
    /\ calls' = [calls EXCEPT !["current"] = @ + 1]
    /\ pc' = "merge"
    /\ UNCHANGED <<clock, df_existing, df, filename, files, webRead, web,
                   localRead, loaded, bulkRes, bulk, writes, exitCode, report>>

\* Mutant of FetchCurrentExit: the handler exits with status 0.
FetchCurrentExit_Status0(why) ==
    /\ pc = "fetch_today"
    /\ curRes' = why
    /\ calls' = [calls EXCEPT !["current"] = @ + 1]
    /\ pc' = "exited"
    /\ exitCode' = <<0>>
    /\ report' = "error"
    /\ UNCHANGED <<clock, locals, files, webRead, web, localRead, loaded,
                   bulkRes, bulk, writes>>

\* Lines 60-62: a RequestException is printed and sys.exit(1) ends the run.
FetchCurrentExit(why) ==
    /\ pc = "fetch_today"
    /\ curRes' = why
    /\ calls' = [calls EXCEPT !["current"] = @ + 1]
    /\ pc' = "exited"
    /\ exitCode' = <<1>>
    /\ report' = "error"
    /\ UNCHANGED <<clock, locals, files, webRead, web, localRead, loaded, bulkRes,
                   bulk, writes>>

\* Line 54 or 57 raises on JSON of another shape (KeyError, TypeError,
\* ValueError), which line 60 does not catch.
FetchCurrentRaise(why) ==
    /\ pc = "fetch_today"
    /\ curRes' = why
    /\ calls' = [calls EXCEPT !["current"] = @ + 1]
    /\ Crash
    /\ UNCHANGED <<clock, locals, files, webRead, web, localRead, loaded, bulkRes,
                   bulk, writes>>

\* ------------------------------------------------ main(), lines 172-187
MergeStep ==
    /\ pc = "merge"
    /\ df_existing' = Kept(df_existing, df_today)
    /\ df' = Merge(df_existing, df_today)
    /\ pc' = "save"
    /\ UNCHANGED <<clock, df_today, filename, files, webRead, web, localRead, loaded,
                   bulkRes, bulk, curRes, calls, writes, exitCode, report>>

\* ------------------------------------------------------------ save_csv()
\* Mutant of SaveCsv: latest.csv is not rewritten.
SaveCsv_NoLatest ==
    /\ pc = "save"
    /\ dated' = [dated EXCEPT ![clock] = Present(to_csv(df))]
    /\ filename' = Present(clock)
    /\ writes' = writes \o <<"dated">>
    /\ pc' = "index"
    /\ UNCHANGED <<clock, df_existing, df_today, df, latest, index, webRead,
                   web, localRead, loaded, bulkRes, bulk, curRes, calls,
                   exitCode, report>>

\* Lines 112-128: the dated file, then latest.csv, both from df.
SaveCsv ==
    /\ pc = "save"
    /\ dated' = [dated EXCEPT ![clock] = Present(to_csv(df))]
    /\ latest' = Present(to_csv(df))
    /\ filename' = Present(clock)
    /\ writes' = writes \o <<"dated", "latest">>
    /\ pc' = "index"
    /\ UNCHANGED <<clock, df_existing, df_today, df, index, webRead, web,
                   localRead, loaded, bulkRes, bulk, curRes, calls, exitCode, report>>

\* makedirs or opening the dated file raises (lines 112-120): nothing is
\* written and the exception leaves main().
SaveCsvFail ==
    /\ pc = "save"
    /\ Crash
    /\ UNCHANGED <<clock, locals, files, webRead, web, localRead, loaded, bulkRes,
                   bulk, curRes, calls, writes>>

\* ---------------------------------------------------- update_index_html()
\* Lines 132-151, then line 195: the page is rewritten whole, "Done!".
UpdateIndex ==
    /\ pc = "index"
    /\ index' = Present(filename[1])
    /\ writes' = writes \o <<"index">>
    /\ pc' = "done"
    /\ exitCode' = <<0>>
    /\ report' = "done"
    /\ UNCHANGED <<clock, locals, latest, dated, webRead, web, localRead, loaded,
                   bulkRes, bulk, curRes, calls>>

\* open('index.html', 'w') raises (line 149).
UpdateIndexFail ==
    /\ pc = "index"
    /\ Crash
    /\ UNCHANGED <<clock, locals, files, webRead, web, localRead, loaded, bulkRes,
                   bulk, curRes, calls, writes>>

\* ------------------------------------------------------------ scheduling
\* The job is started again (lines 197-198): a fresh process, same files.
NewRun ==
    /\ pc \in Terminal
    /\ pc' = "start"
    /\ df_existing' = EmptyFrame
    /\ df_today' = EmptyFrame
    /\ df' = EmptyFrame
    /\ filename' = Absent
    /\ webRead' = "unread"
    /\ web' = Absent
    /\ localRead' = "unread"
    /\ loaded' = Absent
    /\ bulkRes' = "uncalled"
    /\ bulk' = Absent
    /\ curRes' = "uncalled"
    /\ calls' = [s \in Sources |-> 0]
    /\ writes' = <<>>
    /\ exitCode' = <<>>
    /\ report' = "none"
    /\ UNCHANGED <<clock, files>>

\* The steps of one run whose sources serve the series of Served.
RunStepOf(Served) ==
    \/ \E s \in Served : LoadRemoteOk(s)
    \/ LoadRemoteFail
    \/ LoadLocalOk
    \/ LoadLocalFail
    \/ LoadLocalAbsent
    \/ SkipBackfill
    \/ \E s \in Served : BackfillOk(s)
    \/ \E why \in RequestFailures \cup {"no_key"} : BackfillNone(why)
    \/ BackfillRaise("bad_shape")
    \/ \E p \in Prices : FetchCurrentOk(p)
    \/ \E why \in RequestFailures : FetchCurrentExit(why)
    \/ FetchCurrentRaise("bad_shape")
    \/ MergeStep
    \/ SaveCsv
    \/ SaveCsvFail
    \/ UpdateIndex
    \/ UpdateIndexFail

RunStep == RunStepOf(ServedSeries)

Next == RunStep \/ NewRun

Spec == Init /\ [][Next]_vars

\* What an earlier run of the day left in latest.csv after a short or an
\* empty website copy.
PriorOutputs == {Merge(s, <<mkRow(2, p)>>) : s \in SeqsUpTo(Row, 1), p \in Prices}

\* A process started on the files of a fresh checkout or of an earlier run.
RunInit ==
    /\ pc = "start"
    /\ clock = 2
    /\ df_existing = EmptyFrame
    /\ df_today = EmptyFrame
    /\ df = EmptyFrame
    /\ filename = Absent
    /\ \/ latest = Absent /\ index = Absent
       \/ \E o \in PriorOutputs : latest = Present(to_csv(o)) /\ index = Present(2)
    /\ dated = [d \in Dates |-> IF d = 2 THEN latest ELSE Absent]
    /\ webRead = "unread"
    /\ web = Absent
    /\ localRead = "unread"
    /\ loaded = Absent
    /\ bulkRes = "uncalled"
    /\ bulk = Absent
    /\ curRes = "uncalled"
    /\ calls = [s \in Sources |-> 0]
    /\ writes = <<>>
    /\ exitCode = <<>>
    /\ report = "none"

\* One run over the short series, in which every blocking call returns and
\* the interpreter keeps going until main() returns or the process exits.
OneRun ==
    RunInit /\ [][RunStepOf(ShortSeries)]_vars /\ WF_vars(RunStepOf(ShortSeries))

\* ================================================================ claims
\* The positions at which main() holds the merged series.
Merged == {"save", "index", "done"}

StrictlyAscending(series) ==
    \A i \in 1..(Len(series) - 1) : series[i].date < series[i + 1].date

\* How many rows of series equal r.
Count(series, r) == Cardinality({i \in 1..Len(series) : series[i] = r})

BulkFailures == RequestFailures \cup {"no_key", "bad_shape"}

CurrentFailures == RequestFailures \cup {"bad_shape"}

\* C1: the series handed to save_csv is strictly ascending by date, so it
\* holds at most one row per date, whatever the Loader or the bulk-history
\* fetch returned.
C1_OutputStrictlyAscending == pc \in Merged => StrictlyAscending(df)

\* C2: when the Loader returned the empty series and the bulk-history fetch
\* failed in any way, the run goes on to the current-point fetch with
\* existing still empty, and what it then writes is today's point alone.
C2_BackfillFailureNotFatal ==
    bulkRes \in BulkFailures =>
        /\ curRes = "uncalled" => pc = "fetch_today" /\ df_existing = EmptyFrame
        /\ pc \in Merged => df = df_today

\* C3: a failed current-point fetch ends the run with a failure report and
\* a non-zero exit status, and no file is written in a run before its
\* current-point fetch has succeeded.
C3_CurrentFailureFatalNoWrite ==
    /\ curRes # "ok" => writes = <<>>
    /\ curRes \in CurrentFailures =>
          /\ pc \in {"exited", "crashed"}
          /\ exitCode = <<1>>
          /\ report \in {"error", "traceback"}

C3_Witness ==
    /\ curRes = "transport"
    /\ pc = "exited"
    /\ latest # Absent
    /\ writes = <<>>

\* C4: load_existing_data() tries the website, then the local file, then
\* the empty frame; it returns the website series if that read succeeds,
\* else the local series if the file exists and reads, else the empty
\* frame, and no failure of a read leaves the function.
C4_LoaderFallbackChain ==
    /\ localRead # "unread" => webRead = "fail"
    /\ pc = "crashed" => loaded # Absent
    /\ pc = "loaded" =>
          /\ loaded = Present(df_existing)
          /\ webRead = "ok" => df_existing = web[1]
          /\ webRead = "fail" => localRead # "unread"
          /\ localRead = "ok" => latest # Absent /\ df_existing = read_csv(latest[1])
          /\ localRead = "fail" => latest # Absent /\ df_existing = EmptyFrame
          /\ localRead = "absent" => latest = Absent /\ df_existing = EmptyFrame

C4_Witness ==
    /\ pc = "loaded"
    /\ webRead = "fail"
    /\ localRead = "ok"
    /\ df_existing # EmptyFrame

\* C5: when the existing series holds today's date at another price, the
\* merged series holds for today's date the fetched price and only that.
C5_IncomingWins ==
    [][pc = "merge" /\ pc' = "save" =>
        LET today == df_today[1] IN
        (\E i \in 1..Len(df_existing) :
             df_existing[i].date = today.date /\ df_existing[i].price # today.price)
        => /\ Count(df', today) = 1
           /\ \A j \in 1..Len(df') : df'[j].date = today.date => df'[j] = today]_vars

C5_Witness ==
    /\ pc = "save"
    /\ webRead = "ok"
    /\ \E i \in 1..Len(web[1]) :
           web[1][i].date = df_today[1].date /\ web[1][i].price # df_today[1].price

\* C6: the merge keeps every date: the dates of the merged series are those
\* of existing together with today's, and every existing row of another
\* date is in the result as often as before, price unchanged.
C6_MergePreservesDates ==
    [][pc = "merge" /\ pc' = "save" =>
        /\ DatesOf(df') = DatesOf(df_existing) \cup DatesOf(df_today)
        /\ \A r \in Row : r.date # df_today[1].date =>
               Count(df', r) = Count(df_existing, r)]_vars

C6_Witness ==
    /\ pc = "save"
    /\ webRead = "ok"
    /\ df_today[1].date \in DatesOf(web[1])
    /\ \E i \in 1..Len(web[1]) : web[1][i].date # df_today[1].date

\* C7: the bulk-history fetch is called only when the Loader returned the
\* empty series, before the current-point fetch, and a series it returns
\* is the baseline today's point is merged into; after a non-empty load it
\* is never called.
C7_BackfillOnlyWhenEmpty ==
    /\ bulkRes # "uncalled" => loaded = Present(EmptyFrame)
    /\ calls["bulk"] > 0 <=> bulkRes # "uncalled"
    /\ curRes # "uncalled" /\ loaded = Present(EmptyFrame) => bulkRes # "uncalled"
    /\ bulkRes = "ok" /\ pc \in {"fetch_today", "merge"} => df_existing = bulk[1]
    /\ bulkRes = "ok" /\ pc \in Merged => df = Merge(bulk[1], df_today)

C7_Witness ==
    /\ bulkRes = "ok"
    /\ bulk[1] # EmptyFrame
    /\ pc = "save"

\* The days for which a dated file exists.
DatedDays == {d \in Dates : dated[d] # Absent}

\* C8: after a successful run the dated file and latest.csv both hold the
\* merged series of the run and index.html was written after them; writing
\* on a day that already has its file replaces that file and adds none.
C8_WriterOutputs ==
    /\ [](pc = "done" =>
            /\ exitCode = <<0>>
            /\ latest = Present(to_csv(df))
            /\ dated[filename[1]] = latest
            /\ index = filename
            /\ writes = <<"dated", "latest", "index">>)
    /\ [][pc = "save" /\ pc' = "index" =>
            /\ DatedDays' = DatedDays \cup {clock}
            /\ \A d \in Dates \ {clock} : dated'[d] = dated[d]]_vars

C8_Witness ==
    /\ pc = "done"
    /\ localRead = "ok"
    /\ latest # Present(to_csv(loaded[1]))

\* C9: the merge is idempotent: merging today's point again into the
\* output of the merge returns that output unchanged, and
\* merge(S, merge(S, S)) = merge(S, S) for the one-row series S.
C9_MergeIdempotent ==
    pc \in Merged =>
        /\ Merge(df, df_today) = df
        /\ Merge(df_today, Merge(df_today, df_today)) = Merge(df_today, df_today)

\* The order of the positions of a run.
Rank(p) ==
    CASE p = "start" -> 1
      [] p = "load_local" -> 2
      [] p = "loaded" -> 3
      [] p = "fetch_today" -> 4
      [] p = "merge" -> 5
      [] p = "save" -> 6
      [] p = "index" -> 7
      [] p \in Terminal -> 8

====
